---- MODULE Spec2Model ----
(***************************************************************************)
(* Model of wgengine/router_linux.go: the linuxRouter that keeps the OS    *)
(* address table, route table and firewall rules of one tunnel interface   *)
(* in step with the RouteSettings handed to SetRoutes.                     *)
(*                                                                         *)
(* A CIDR is a record [IP, Mask].  IPs are AddrBits wide.  The string a    *)
(* command carries for a CIDR is modelled by the pair <<ip, mask>>.        *)
(* An external command either succeeds or fails; which one is chosen       *)
(* nondeterministically for every command a call issues.  Go's map         *)
(* iteration order is unspecified, so the route loops run in any order.    *)
(***************************************************************************)
EXTENDS Integers, Sequences, FiniteSets

\* ---- bounds of the model ----
AddrBits == 2      \* width of an IP address in bits
MaxRouteIP == 2    \* route CIDRs have IPs 0..MaxRouteIP
MaxLocalIP == 2    \* local addresses have IPs 1..MaxLocalIP
MaxPeers == 2      \* peers per RouteSettings
MaxAllowed == 1    \* AllowedIPs per peer
MaxCalls == 2      \* calls made on one router
MaxQuietCalls == 3 \* calls made on one router when no command fails

\* ---- values ----
\* wgcfg.CIDR{}: the zero value r.local holds after construction
ZeroCIDR == [IP |-> 0, Mask |-> 0]

LocalAddrs == {ZeroCIDR} \cup {[IP |-> i, Mask |-> AddrBits] : i \in 1..MaxLocalIP}

\* route CIDRs leave the last address bit to the host, so that two of them
\* can name the same network
RouteCIDRs == {[IP |-> i, Mask |-> AddrBits - 1] : i \in 0..MaxRouteIP}

RECURSIVE Pow2(_)
Pow2(n) == IF n = 0 THEN 1 ELSE 2 * Pow2(n - 1)

\* net.IP.Mask(net.Mask): the IP with the host bits cleared
MaskIP(ip, mask) == (ip \div Pow2(AddrBits - mask)) * Pow2(AddrBits - mask)

\* CIDR.String(): "ip/mask"
CIDRString(c) == <<c.IP, c.Mask>>

\* fmt.Sprintf("%v/%d", nip, route.Mask) of the masked IP
RouteDest(route) == <<MaskIP(route.IP, route.Mask), route.Mask>>

\* IP.String()
IPString(ip) == <<ip>>

NoVia == <<>>

\* return values: nil, the error of the k-th command of the call, or no
\* return at all (log.Fatalf exits the process)
Nil == [kind |-> "nil", idx |-> 0]
Err(k) == [kind |-> "err", idx |-> k]
Exited == [kind |-> "exit", idx |-> 0]

\* argument vectors; key is the CIDR (map key) the command is issued for
LinkUp == [op |-> "link up", dst |-> <<>>, via |-> NoVia, key |-> ZeroCIDR]
IptablesForward == [op |-> "iptables forward", dst |-> <<>>, via |-> NoVia, key |-> ZeroCIDR]
IptablesNat == [op |-> "iptables nat", dst |-> <<>>, via |-> NoVia, key |-> ZeroCIDR]
AddrDel(c) == [op |-> "addr del", dst |-> CIDRString(c), via |-> NoVia, key |-> c]
AddrAdd(c) == [op |-> "addr add", dst |-> CIDRString(c), via |-> NoVia, key |-> c]
RouteDel(route, gw) == [op |-> "route del", dst |-> RouteDest(route), via |-> IPString(gw), key |-> route]
RouteAdd(route, gw) == [op |-> "route add", dst |-> RouteDest(route), via |-> IPString(gw), key |-> route]
ServiceRestart == [op |-> "service restart", dst |-> <<>>, via |-> NoVia, key |-> ZeroCIDR]

\* the two file operations on the resolver configuration, logged with the
\* commands of the call that performs them
ReplaceResolv == [op |-> "replace resolv.conf", dst |-> <<>>, via |-> NoVia, key |-> ZeroCIDR]
RestoreResolv == [op |-> "restore resolv.conf", dst |-> <<>>, via |-> NoVia, key |-> ZeroCIDR]

\* ---- inputs ----
SeqsUpTo(S, n) == UNION {[1..k -> S] : k \in 0..n}

PeerSet == {[AllowedIPs |-> a] : a \in SeqsUpTo(RouteCIDRs, MaxAllowed)}

\* rs.DNS and rs.DNSDomains: none, or one server and one search domain
DNSChoices == {[DNS |-> <<>>, DNSDomains |-> <<>>], [DNS |-> <<1>>, DNSDomains |-> <<"corp">>]}

RouteSettingsSet ==
    {[LocalAddr |-> a, Peers |-> p, DNS |-> d.DNS, DNSDomains |-> d.DNSDomains] :
        a \in LocalAddrs, p \in SeqsUpTo(PeerSet, MaxPeers), d \in DNSChoices}

\* the desired states that ask for no DNS configuration
QuietRouteSettingsSet == {rs \in RouteSettingsSet : rs.DNS = <<>> /\ rs.DNSDomains = <<>>}

\* the orders a range over a map may visit the keys in
Orders(S) == {f \in [1..Cardinality(S) -> S] : \A i, j \in DOMAIN f : f[i] = f[j] => i = j}

\* local, routes: the fields of linuxRouter.  alive: the process has not
\* exited.  resolv: a replaced resolv.conf is installed.  call: the last
\* call, prev: a summary of the one before it, hist: every command issued
\* so far, each with the number of its call.
VARIABLES local, routes, alive, resolv, call, prev, hist, ncalls

vars == <<local, routes, alive, resolv, call, prev, hist, ncalls>>

NoRS == [LocalAddr |-> ZeroCIDR, Peers |-> <<>>, DNS |-> <<>>, DNSDomains |-> <<>>]

NoCall == [op |-> "none", rs |-> NoRS, oldLocal |-> ZeroCIDR, oldRoutes |-> {},
           cmds |-> <<>>, ret |-> Nil]

\* what is remembered of the call before the last one: its operation, the
\* target Address and allowed-IP union it asked for, and whether one of its
\* commands failed
RECURSIVE RangeUnion(_)
RangeUnion(allowed) ==
    IF allowed = <<>> THEN {}
    ELSE {Head(allowed)} \cup RangeUnion(Tail(allowed))

AllowedUnion(rs) == UNION {RangeUnion(rs.Peers[i].AllowedIPs) : i \in DOMAIN rs.Peers}

AnyFailed(c) == \E k \in DOMAIN c.cmds : ~c.cmds[k].ok

Summary(c) == [op |-> c.op, LocalAddr |-> c.rs.LocalAddr, union |-> AllowedUnion(c.rs),
               failed |-> AnyFailed(c)]

\* newUserspaceRouter: local and routes keep their zero values
Init ==
    /\ local = ZeroCIDR
    /\ routes = {}
    /\ alive = TRUE
    /\ resolv = FALSE
    /\ call = NoCall
    /\ prev = Summary(NoCall)
    /\ hist = <<>>
    /\ ncalls = 0

Tag(cmds, n) == [k \in DOMAIN cmds |-> [cmd |-> cmds[k].cmd, ok |-> cmds[k].ok, n |-> n]]

\* a call completes: it becomes the last call and its commands join hist
Record(c) ==
    /\ call' = c
    /\ prev' = Summary(call)
    /\ hist' = hist \o Tag(c.cmds, ncalls + 1)
    /\ ncalls' = ncalls + 1

\* ---- SetRoutes ----
NewRoutesFirstPeer(peers) ==
    IF peers = <<>> THEN {} ELSE RangeUnion(Head(peers).AllowedIPs)

\* newRoutes[route] = struct{}{} for every route of every peer
RECURSIVE NewRoutes(_)
NewRoutes(peers) ==
    IF peers = <<>> THEN {}
    ELSE RangeUnion(Head(peers).AllowedIPs) \cup NewRoutes(Tail(peers))

NeedAddrChangeAlways(target, applied) == TRUE

\* if rs.LocalAddr != r.local
NeedAddrChange(target, applied) == target # applied

NeedAddrDelAlways(applied) == TRUE

\* if r.local != (wgcfg.CIDR{})
NeedAddrDel(applied) == applied # ZeroCIDR

AddrCmds(target, applied) ==
    IF NeedAddrChange(target, applied)
    THEN (IF NeedAddrDel(applied) THEN <<AddrDel(applied)>> ELSE <<>>)
         \o <<AddrAdd(target)>>
    ELSE <<>>

ToDelAll(old, new) == old

\* for route := range r.routes { if _, keep := newRoutes[route]; !keep
ToDel(old, new) == {route \in old : route \notin new}

ToAddUnlessFirst(old, new) == IF old = {} THEN {} ELSE {route \in new : route \notin old}

\* for route := range newRoutes { if _, exists := r.routes[route]; !exists
ToAdd(old, new) == {route \in new : route \notin old}

PlanRoutesFirst(addr, dels, adds) == dels \o addr \o adds

\* the statements of SetRoutes in program order
Plan(addr, dels, adds) == addr \o dels \o adds

RecordErrLast(errq, err) == err

\* if errq == nil { errq = err }
RecordErr(errq, err) == IF errq = Nil THEN err ELSE errq

CommitIfOk(old, new, errq) == IF errq = Nil THEN new ELSE old

\* r.local = rs.LocalAddr; r.routes = newRoutes: assigned whatever errq holds
Commit(old, new, errq) == new

RECURSIVE StopFrom(_, _, _, _, _)
StopFrom(plan, fails, k, issued, errq) ==
    IF k > Len(plan) THEN [cmds |-> issued, errq |-> errq]
    ELSE IF k \in fails
         THEN [cmds |-> Append(issued, [cmd |-> plan[k], ok |-> FALSE]),
               errq |-> RecordErr(errq, Err(k))]
         ELSE StopFrom(plan, fails, k + 1, Append(issued, [cmd |-> plan[k], ok |-> TRUE]), errq)

RunCmdsStopOnFail(plan, fails) == StopFrom(plan, fails, 1, <<>>, Nil)

\* cmd(...).CombinedOutput() of the k-th command and on: a failure is logged
\* and recorded in errq, and the next command runs
RECURSIVE RunFrom(_, _, _, _, _)
RunFrom(plan, fails, k, issued, errq) ==
    IF k > Len(plan) THEN [cmds |-> issued, errq |-> errq]
    ELSE LET ok == k \notin fails
         IN RunFrom(plan, fails, k + 1, Append(issued, [cmd |-> plan[k], ok |-> ok]),
                    IF ok THEN errq ELSE RecordErr(errq, Err(k)))

\* every command of the plan runs, in order; fails holds the positions of
\* the commands that fail
RunCmds(plan, fails) == RunFrom(plan, fails, 1, <<>>, Nil)

DelGatewayNew(applied, target) == target.IP

\* "via", r.local.IP.String() of a route deletion
DelGateway(applied, target) == applied.IP

AddGatewayOld(applied, target) == applied.IP

\* "via", rs.LocalAddr.IP.String() of a route addition
AddGateway(applied, target) == target.IP

TakeoverOn == TRUE

\* if false { ... }: the resolver takeover is disabled
TakeoverEnabled == FALSE

\* replaceResolvConf(rs.DNS, rs.DNSDomains, r.logf): nil or an error
ReplaceResolvConf(dns, domains, replaceOk) == IF replaceOk THEN Nil ELSE Err(0)

\* exec.Command("service", "systemd-resolved", "restart"); the error is dropped
RestartSystemd(restartOk) == <<[cmd |-> ServiceRestart, ok |-> restartOk]>>

\* the block after the Applied State is committed: when enabled it replaces
\* resolv.conf, overwrites errq if that fails, and restarts the resolver
Takeover(rs, errq, installed, replaceOk, restartOk) ==
    IF TakeoverEnabled
    THEN [cmds |-> <<[cmd |-> ReplaceResolv, ok |-> replaceOk]>> \o RestartSystemd(restartOk),
          errq |-> IF ReplaceResolvConf(rs.DNS, rs.DNSDomains, replaceOk) # Nil
                   THEN Err(0) ELSE errq,
          installed |-> installed \/ replaceOk]
    ELSE [cmds |-> <<>>, errq |-> errq, installed |-> installed]

TakeoverOutcomes == IF TakeoverEnabled THEN BOOLEAN ELSE {TRUE}

SetRoutes(rs, delOrder, addOrder, fails, replaceOk, restartOk) ==
    /\ alive
    /\ LET newRoutes == NewRoutes(rs.Peers)
           addr == AddrCmds(rs.LocalAddr, local)
           dels == [i \in DOMAIN delOrder |->
                       RouteDel(delOrder[i], DelGateway(local, rs.LocalAddr))]
           adds == [i \in DOMAIN addOrder |->
                       RouteAdd(addOrder[i], AddGateway(local, rs.LocalAddr))]
           run == RunCmds(Plan(addr, dels, adds), fails)
           applied == Commit([local |-> local, routes |-> routes],
                             [local |-> rs.LocalAddr, routes |-> newRoutes], run.errq)
           dns == Takeover(rs, run.errq, resolv, replaceOk, restartOk)
       IN /\ local' = applied.local
          /\ routes' = applied.routes
          /\ resolv' = dns.installed
          /\ Record([op |-> "SetRoutes", rs |-> rs, oldLocal |-> local, oldRoutes |-> routes,
                     cmds |-> run.cmds \o dns.cmds, ret |-> dns.errq])
    /\ UNCHANGED alive

\* the outcomes SetRoutes can have for one desired state: the orders of the
\* two range loops and the commands that fail
SetRoutesOf(rs, mayFail) ==
    LET newRoutes == NewRoutes(rs.Peers) IN
    \E delOrder \in Orders(ToDel(routes, newRoutes)) :
    \E addOrder \in Orders(ToAdd(routes, newRoutes)) :
    \E fails \in (IF mayFail
                   THEN SUBSET (1..(Len(AddrCmds(rs.LocalAddr, local))
                                    + Len(delOrder) + Len(addOrder)))
                   ELSE {{}}) :
    \E replaceOk, restartOk \in TakeoverOutcomes :
        SetRoutes(rs, delOrder, addOrder, fails, replaceOk, restartOk)

SetRoutesCall ==
    /\ ncalls < MaxCalls
    /\ \E rs \in RouteSettingsSet : SetRoutesOf(rs, TRUE)

\* ---- Up ----
UpFatalNever(linkOk) == FALSE

\* if err != nil { log.Fatalf(...) }
UpFatal(linkOk) == ~linkOk

UpFirewallStopOnFail(fwdOk, natOk) ==
    IF fwdOk THEN <<[cmd |-> IptablesForward, ok |-> fwdOk], [cmd |-> IptablesNat, ok |-> natOk]>>
    ELSE <<[cmd |-> IptablesForward, ok |-> fwdOk]>>

\* the two iptables commands; a failure is only logged
UpFirewall(fwdOk, natOk) ==
    <<[cmd |-> IptablesForward, ok |-> fwdOk], [cmd |-> IptablesNat, ok |-> natOk]>>

Up(linkOk, fwdOk, natOk) ==
    /\ alive
    /\ IF UpFatal(linkOk)
       THEN /\ alive' = FALSE
            /\ Record([op |-> "Up", rs |-> NoRS, oldLocal |-> local, oldRoutes |-> routes,
                       cmds |-> <<[cmd |-> LinkUp, ok |-> linkOk]>>, ret |-> Exited])
       ELSE /\ alive' = alive
            /\ Record([op |-> "Up", rs |-> NoRS, oldLocal |-> local, oldRoutes |-> routes,
                       cmds |-> <<[cmd |-> LinkUp, ok |-> linkOk]>> \o UpFirewall(fwdOk, natOk),
                       ret |-> Nil])
    /\ UNCHANGED <<local, routes, resolv>>

UpCall ==
    /\ ncalls < MaxCalls
    /\ \E linkOk, fwdOk, natOk \in BOOLEAN : Up(linkOk, fwdOk, natOk)

\* ---- Close ----
\* restoreResolvConf(r.logf): nil or an error
RestoreResolvConf(restoreOk) == IF restoreOk THEN Nil ELSE Err(1)

CloseCmdsWithCleanup(restoreOk, restartOk, applied) ==
    <<[cmd |-> RestoreResolv, ok |-> restoreOk]>> \o RestartSystemd(restartOk)
        \o <<[cmd |-> AddrDel(applied), ok |-> TRUE]>>

\* what Close does, in order: restoreResolvConf, then restartSystemd; the
\* iptables rules, the address and the routes are left in place
\* ("TODO(apenwarr): clean up iptables etc.")
CloseCmds(restoreOk, restartOk, applied) ==
    <<[cmd |-> RestoreResolv, ok |-> restoreOk]>> \o RestartSystemd(restartOk)

CloseRetRestart(restoreErr, restartOk) ==
    IF restoreErr # Nil THEN restoreErr ELSE IF restartOk THEN Nil ELSE Err(2)

\* var ret error; if err != nil { if ret == nil { ret = err } }; return ret
CloseRet(restoreErr, restartOk) == RecordErr(Nil, restoreErr)

Close(restoreOk, restartOk) ==
    /\ alive
    /\ Record([op |-> "Close", rs |-> NoRS, oldLocal |-> local, oldRoutes |-> routes,
               cmds |-> CloseCmds(restoreOk, restartOk, local),
               ret |-> CloseRet(RestoreResolvConf(restoreOk), restartOk)])
    /\ resolv' = (resolv /\ ~restoreOk)
    /\ UNCHANGED <<local, routes, alive>>

CloseCall ==
    /\ ncalls < MaxCalls
    /\ \E restoreOk, restartOk \in BOOLEAN : Close(restoreOk, restartOk)

Next == SetRoutesCall \/ UpCall \/ CloseCall

Spec == Init /\ [][Next]_vars

\* the same router when every command and file operation succeeds and no
\* DNS configuration is asked for
QuietSetRoutes ==
    /\ ncalls < MaxQuietCalls
    /\ \E rs \in QuietRouteSettingsSet : SetRoutesOf(rs, FALSE)

QuietUp == ncalls < MaxQuietCalls /\ Up(TRUE, TRUE, TRUE)

QuietClose == ncalls < MaxQuietCalls /\ Close(TRUE, TRUE)

QuietNext == QuietSetRoutes \/ QuietUp \/ QuietClose

QuietSpec == Init /\ [][QuietNext]_vars

(***************************************************************************)
(* Properties                                                              *)
(***************************************************************************)
IsSetRoutes == call.op = "SetRoutes"

\* positions of the commands of one kind in the last call
Issued(op) == {k \in DOMAIN call.cmds : call.cmds[k].cmd.op = op}

IssuedFor(op, key) == {k \in Issued(op) : call.cmds[k].cmd.key = key}

IssuedTo(op, dst) == {k \in Issued(op) : call.cmds[k].cmd.dst = dst}

Failed == {k \in DOMAIN call.cmds : ~call.cmds[k].ok}

\* A: the Applied Route Set before the call; B: the desired union
SetA == call.oldRoutes
SetB == AllowedUnion(call.rs)

Target == call.rs.LocalAddr

Dests == {RouteDest(r) : r \in RouteCIDRs}

SameDesiredAsPrev ==
    /\ IsSetRoutes
    /\ prev.op = "SetRoutes"
    /\ prev.LocalAddr = Target
    /\ prev.union = SetB

\* C1: one SetRoutes call issues exactly one route-delete for each route of
\* A \ B, exactly one route-add for each route of B \ A and no route
\* command for a route of both (or of neither), whether or not the local
\* address changes in the call; the destinations the commands name are the
\* normalized networks of those routes, counted with multiplicity.
C1_DiffCorrect ==
    IsSetRoutes =>
        /\ \A r \in RouteCIDRs :
            /\ Cardinality(IssuedFor("route del", r)) = (IF r \in SetA \ SetB THEN 1 ELSE 0)
            /\ Cardinality(IssuedFor("route add", r)) = (IF r \in SetB \ SetA THEN 1 ELSE 0)
        /\ \A d \in Dests :
            /\ Cardinality(IssuedTo("route del", d))
                 = Cardinality({r \in SetA \ SetB : RouteDest(r) = d})
            /\ Cardinality(IssuedTo("route add", d))
                 = Cardinality({r \in SetB \ SetA : RouteDest(r) = d})

C1_Witness ==
    /\ IsSetRoutes
    /\ Target # call.oldLocal
    /\ call.oldLocal # ZeroCIDR
    /\ SetA \ SetB # {}
    /\ SetB \ SetA # {}
    /\ SetA \cap SetB # {}
    /\ Issued("route del") # {}
    /\ Issued("route add") # {}

\* C2: after every SetRoutes call, failed commands or not, the Applied State
\* is the target Address of the call and the union of the allowed-IPs of
\* all peers of the call.
C2_AppliedIsDesired ==
    IsSetRoutes => (local = Target /\ routes = SetB)

C2_Witness ==
    /\ IsSetRoutes
    /\ Failed # {}
    /\ Len(call.rs.Peers) = MaxPeers
    /\ Cardinality(SetB) > 1
    /\ local = Target
    /\ routes = SetB
    /\ routes # call.oldRoutes
    /\ local # call.oldLocal

\* C3: a SetRoutes call with the desired state of the SetRoutes call just
\* before it issues no address or route command and leaves the Applied
\* State as it was.
C3_Idempotent ==
    SameDesiredAsPrev =>
        /\ Issued("addr del") = {}
        /\ Issued("addr add") = {}
        /\ Issued("route del") = {}
        /\ Issued("route add") = {}
        /\ local = call.oldLocal
        /\ routes = call.oldRoutes

C3_Witness ==
    /\ SameDesiredAsPrev
    /\ Target # ZeroCIDR
    /\ SetB # {}
    /\ call.cmds = <<>>
    /\ local = call.oldLocal
    /\ routes = call.oldRoutes

\* the position of the command that failed first in execution order
FirstFailed == CHOOSE k \in Failed : \A j \in Failed : k <= j

\* C4: SetRoutes returns nil exactly when none of its commands failed, and
\* otherwise the error of the command that failed first in execution order.
C4_FirstError ==
    IsSetRoutes =>
        /\ (call.ret = Nil) <=> (Failed = {})
        /\ Failed # {} => call.ret = Err(FirstFailed)

C4_Witness ==
    /\ IsSetRoutes
    /\ Cardinality(Failed) = 3
    /\ FirstFailed > 1
    /\ call.ret = Err(FirstFailed)
    /\ \E k \in Failed : k > FirstFailed /\ call.cmds[k].cmd.op = "route add"

\* the commands a call must attempt, from the Applied State and the
\* desired state alone
ExpectedCmds ==
    (IF Target # call.oldLocal /\ call.oldLocal # ZeroCIDR
        THEN {AddrDel(call.oldLocal)} ELSE {})
    \cup (IF Target # call.oldLocal THEN {AddrAdd(Target)} ELSE {})
    \cup {RouteDel(r, call.oldLocal.IP) : r \in SetA \ SetB}
    \cup {RouteAdd(r, Target.IP) : r \in SetB \ SetA}

\* C5: a failing command does not cut a SetRoutes call short: in a call
\* with failures the commands attempted are still those the Applied State
\* and the desired state determine, every route deletion and addition of
\* the diff among them.
C5_BestEffort ==
    (IsSetRoutes /\ Failed # {}) =>
        /\ {call.cmds[k].cmd : k \in DOMAIN call.cmds} = ExpectedCmds
        /\ Len(call.cmds) = Cardinality(ExpectedCmds)

C5_Witness ==
    /\ IsSetRoutes
    /\ 1 \in Failed
    /\ call.cmds[1].cmd.op = "addr del"
    /\ \E k \in Failed : /\ call.cmds[k].cmd.op = "route del"
                         /\ \E j \in Issued("route del") : j > k
                         /\ \E j \in Issued("route add") : j > k

\* C6: when the address changes and routes are added in one SetRoutes call,
\* the address-delete (if any) and then the address-add come before every
\* route-delete and route-add of the call.
C6_AddressFirst ==
    (IsSetRoutes /\ Target # call.oldLocal /\ SetB \ SetA # {}) =>
        /\ \A a \in Issued("addr del") \cup Issued("addr add") :
               \A r \in Issued("route del") \cup Issued("route add") : a < r
        /\ \A d \in Issued("addr del") : \A a \in Issued("addr add") : d < a
        /\ Issued("addr add") # {}
        /\ Issued("route add") # {}

C6_Witness ==
    /\ IsSetRoutes
    /\ Target # call.oldLocal
    /\ Issued("addr del") # {}
    /\ Issued("addr add") # {}
    /\ Issued("route del") # {}
    /\ Issued("route add") # {}

\* C7: after a SetRoutes call in which a command failed, a SetRoutes call
\* with the same desired state issues no command at all and returns nil.
C7_NoRetry ==
    (SameDesiredAsPrev /\ prev.failed) => (call.cmds = <<>> /\ call.ret = Nil)

C7_Witness ==
    /\ SameDesiredAsPrev
    /\ prev.failed
    /\ SetB # {}
    /\ call.cmds = <<>>
    /\ call.ret = Nil

\* C8: SetRoutes issues an address-delete exactly when the Applied Address
\* is non-empty and differs from the target Address (then one, naming the
\* Applied Address), and an address-add exactly when the target Address
\* differs from the Applied Address (then one, naming the target); so the
\* first call on a new router with a non-empty target issues an address-add
\* and no address-delete.
C8_AddressCommands ==
    IsSetRoutes =>
        /\ Issued("addr del") # {} <=> (call.oldLocal # ZeroCIDR /\ call.oldLocal # Target)
        /\ Issued("addr add") # {} <=> (Target # call.oldLocal)
        /\ Cardinality(Issued("addr del")) <= 1
        /\ Cardinality(Issued("addr add")) <= 1
        /\ \A k \in Issued("addr del") : call.cmds[k].cmd.dst = CIDRString(call.oldLocal)
        /\ \A k \in Issued("addr add") : call.cmds[k].cmd.dst = CIDRString(Target)
        /\ (prev.op = "none" /\ Target # ZeroCIDR) =>
               (Issued("addr add") # {} /\ Issued("addr del") = {})

C8_Witness ==
    /\ IsSetRoutes
    /\ prev.op = "none"
    /\ call.oldLocal = ZeroCIDR
    /\ Target # ZeroCIDR
    /\ Issued("addr add") # {}
    /\ Issued("addr del") = {}

OpsOf(cmds) == [k \in DOMAIN cmds |-> cmds[k].cmd.op]

\* C9: when the interface-up command succeeds, Up issues interface-up, the
\* forwarding rule and the NAT rule in this order, the NAT rule also after
\* a failed forwarding rule, and returns success whatever the two firewall
\* commands did.
C9_UpBestEffort ==
    (call.op = "Up" /\ call.cmds[1].ok) =>
        /\ OpsOf(call.cmds) = <<"link up", "iptables forward", "iptables nat">>
        /\ call.ret = Nil
        /\ alive

C9_Witness ==
    /\ call.op = "Up"
    /\ Len(call.cmds) > 2
    /\ call.cmds[1].ok
    /\ ~call.cmds[2].ok
    /\ call.cmds[3].cmd.op = "iptables nat"
    /\ ~call.cmds[3].ok
    /\ call.ret = Nil

\* C10: when the interface-up command fails, Up does not return success and
\* issues no firewall command: the process exits, and nothing is issued
\* after that.
C10_UpFatal ==
    /\ (call.op = "Up" /\ ~call.cmds[1].ok) =>
        /\ call.ret = Exited
        /\ OpsOf(call.cmds) = <<"link up">>
        /\ ~alive
    /\ ~alive => (call.op = "Up" /\ ~call.cmds[1].ok)

C10_Witness ==
    /\ call.op = "Up"
    /\ ~call.cmds[1].ok
    /\ ~alive
    /\ prev.op = "SetRoutes"

\* C11: Close removes nothing: it issues no address-delete, route-delete or
\* firewall command (only the resolver restoration and the resolver service
\* restart) and leaves the Applied Address and Applied Route Set as they were.
C11_CloseKeepsAll ==
    call.op = "Close" =>
        /\ OpsOf(call.cmds) = <<"restore resolv.conf", "service restart">>
        /\ local = call.oldLocal
        /\ routes = call.oldRoutes

C11_Witness ==
    /\ call.op = "Close"
    /\ prev.op = "SetRoutes"
    /\ local # ZeroCIDR
    /\ routes # {}
    /\ \E k \in DOMAIN hist : hist[k].cmd.op = "route add"
    /\ Issued("addr del") = {}
    /\ Issued("route del") = {}

\* C12: Close returns the restoration error when the restoration fails and
\* nil otherwise; the resolver service restart is attempted after the
\* restoration in both cases and its failure does not change the result.
C12_CloseReturn ==
    call.op = "Close" =>
        /\ Issued("restore resolv.conf") = {1}
        /\ Issued("service restart") = {2}
        /\ call.ret = (IF call.cmds[1].ok THEN Nil ELSE Err(1))

C12_Witness ==
    /\ call.op = "Close"
    /\ Len(call.cmds) > 1
    /\ call.cmds[1].ok
    /\ call.cmds[2].cmd.op = "service restart"
    /\ ~call.cmds[2].ok
    /\ call.ret = Nil

HistOp(k, op) == hist[k].cmd.op = op

\* C13: no route-add is issued for a destination for which an earlier
\* route-add was issued unless a route-delete for that destination was
\* issued in between.
C13_NoDoubleAdd ==
    \A i, j \in DOMAIN hist :
        (i < j /\ HistOp(i, "route add") /\ HistOp(j, "route add")
               /\ hist[i].cmd.dst = hist[j].cmd.dst)
        => \E k \in DOMAIN hist :
               i < k /\ k < j /\ HistOp(k, "route del") /\ hist[k].cmd.dst = hist[i].cmd.dst

\* C14: whenever a route-add with gateway G is issued, an address-add for
\* an Address with IP G was issued earlier and no address-delete for that
\* Address has been issued since.
C14_GatewayInstalled ==
    \A j \in DOMAIN hist :
        HistOp(j, "route add") =>
            \E i \in DOMAIN hist :
                /\ i < j
                /\ HistOp(i, "addr add")
                /\ IPString(hist[i].cmd.key.IP) = hist[j].cmd.via
                /\ \A k \in DOMAIN hist :
                       (i < k /\ k < j /\ HistOp(k, "addr del"))
                           => hist[k].cmd.key # hist[i].cmd.key

\* C15: every route-delete of a SetRoutes call names as gateway the IP of
\* the Applied Address before the call, and every route-add the IP of the
\* target Address of the call.
C15_Gateways ==
    IsSetRoutes =>
        /\ \A k \in Issued("route del") : call.cmds[k].cmd.via = IPString(call.oldLocal.IP)
        /\ \A k \in Issued("route add") : call.cmds[k].cmd.via = IPString(Target.IP)

C15_Witness ==
    /\ IsSetRoutes
    /\ call.oldLocal # ZeroCIDR
    /\ Target # ZeroCIDR
    /\ Target.IP # call.oldLocal.IP
    /\ \E k \in Issued("route del") : call.cmds[k].cmd.via = IPString(call.oldLocal.IP)
    /\ \E k \in Issued("route add") : call.cmds[k].cmd.via = IPString(Target.IP)

\* C16: the resolver takeover is inert: no replaced resolv.conf is ever
\* installed, SetRoutes neither replaces resolv.conf nor restarts the
\* resolver service, and its commands, its result and the Applied State are
\* fixed by the Applied State before, the target Address, the allowed-IPs
\* and the failing commands, whatever DNS servers and search domains the
\* desired state carries.
C16_DNSInert ==
    /\ ~resolv
    /\ IsSetRoutes =>
        /\ Issued("replace resolv.conf") = {}
        /\ Issued("service restart") = {}
        /\ {call.cmds[k].cmd : k \in DOMAIN call.cmds} = ExpectedCmds
        /\ Len(call.cmds) = Cardinality(ExpectedCmds)
        /\ call.ret = (IF Failed = {} THEN Nil ELSE Err(FirstFailed))
        /\ local = Target
        /\ routes = SetB

C16_Witness ==
    /\ IsSetRoutes
    /\ call.rs.DNS # <<>>
    /\ call.rs.DNSDomains # <<>>
    /\ call.cmds # <<>>
    /\ Failed # {}
    /\ ~resolv

\* C17: the Applied State is empty at construction, Up and Close leave it
\* as it was, and so a SetRoutes that follows only an Up issues one
\* route-add for every distinct allowed-IP CIDR and no route-delete.
C17_AppliedOnlyBySetRoutes ==
    /\ ncalls = 0 => (local = ZeroCIDR /\ routes = {})
    /\ call.op \in {"Up", "Close"} => (local = call.oldLocal /\ routes = call.oldRoutes)
    /\ (IsSetRoutes /\ prev.op = "Up" /\ ncalls = 2) =>
        /\ \A r \in RouteCIDRs :
               Cardinality(IssuedFor("route add", r)) = (IF r \in SetB THEN 1 ELSE 0)
        /\ Issued("route del") = {}

C17_Witness ==
    /\ IsSetRoutes
    /\ prev.op = "Up"
    /\ ncalls = 2
    /\ Cardinality(SetB) > 1
    /\ Cardinality(Issued("route add")) = Cardinality(SetB)

\* the destinations in the OS route table after the commands of h: those
\* added by a route-add and not removed by a later route-delete
RECURSIVE OSDests(_)
OSDests(h) ==
    IF h = <<>> THEN {}
    ELSE LET before == OSDests(SubSeq(h, 1, Len(h) - 1))
             last == h[Len(h)].cmd
         IN IF last.op = "route add" THEN before \cup {last.dst}
            ELSE IF last.op = "route del" THEN before \ {last.dst}
            ELSE before

\* C18: when every command succeeds, after every SetRoutes call the
\* destinations in the OS route table are the normalized destinations of
\* the Applied Route Set.
C18_OSMatchesApplied ==
    (IsSetRoutes /\ \A k \in DOMAIN hist : hist[k].ok) =>
        OSDests(hist) = {RouteDest(r) : r \in routes}

\* the route-add that most recently added the route a command at j names
LastAdd(j) ==
    {i \in DOMAIN hist :
        /\ i < j
        /\ HistOp(i, "route add")
        /\ hist[i].cmd.key = hist[j].cmd.key
        /\ \A k \in DOMAIN hist :
               (i < k /\ k < j /\ HistOp(k, "route add")) => hist[k].cmd.key # hist[j].cmd.key}

\* a SetRoutes call strictly between the calls of i and j changed the address
AddressChangedBetween(i, j) ==
    \E k \in DOMAIN hist :
        HistOp(k, "addr add") /\ hist[i].n < hist[k].n /\ hist[k].n < hist[j].n

\* C19 as stated: every route-delete names the gateway of the route-add
\* that most recently added that route, also when a SetRoutes call changed
\* the local address between the two.
C19_DelGatewayMatchesAdd ==
    \A j \in DOMAIN hist :
        HistOp(j, "route del") =>
            /\ LastAdd(j) # {}
            /\ \A i \in LastAdd(j) : hist[i].cmd.via = hist[j].cmd.via

\* C19, amended: every route-delete names the gateway of the route-add that
\* most recently added that route, also when the call that adds or the call
\* that deletes the route changes the local address, provided no SetRoutes
\* call strictly between the two changed it.
C19_DelGatewayMatchesAddUnchanged ==
    \A j \in DOMAIN hist :
        HistOp(j, "route del") =>
            /\ LastAdd(j) # {}
            /\ \A i \in LastAdd(j) :
                   ~AddressChangedBetween(i, j) => hist[i].cmd.via = hist[j].cmd.via

C19_Witness ==
    \E j \in DOMAIN hist :
        /\ HistOp(j, "route del")
        /\ \E i \in LastAdd(j) :
            /\ hist[i].cmd.via = hist[j].cmd.via
            /\ hist[j].n = hist[i].n + 2
            /\ \E k \in DOMAIN hist : HistOp(k, "addr add") /\ hist[k].n = hist[j].n /\ k < j
            /\ \E k \in DOMAIN hist : HistOp(k, "addr add") /\ hist[k].n = hist[i].n /\ k < i

====
